---- MODULE Spec2Model ----
(***************************************************************************)
(* Krishivedah live mandi rates: the day-keyed cache-or-fetch routine      *)
(* getCachedMarketRates of src/modules/LiveRates.tsx, run by several       *)
(* concurrent invocations against one shared Firestore collection          *)
(* "liveRates" and one remote price source.                                *)
(***************************************************************************)
EXTENDS Integers, Sequences, FiniteSets, TLC

(* ------------------------------ bounds --------------------------------- *)
\* number of getCachedMarketRates invocations (numbered in start order)
NumInv == 2
\* number of UTC calendar days the clock can pass through
MaxDay == 2

\* longest record list given to the aggregation on its own
MaxRecords == 3
\* the loads of the component: the one of its mount, then one per change of
\* its selection
NumLoads == 3

Inv == 1..NumInv
Days == 1..MaxDay

(* ----------------------------- constants ------------------------------- *)
\* the selected district and commodity (the component's initial selection);
\* the cache keys of the model differ by their date
DISTRICTS == {"Sangli"}
COMMODITIES == {"Tomato"}

(* ------------------------- the remote response ------------------------- *)
\* A raw record of the price source.
Rec(m, lo, hi, modal) ==
  [Market |-> m, Min_Price |-> lo, Max_Price |-> hi, Modal_Price |-> modal]

\* A response body, by what the routine inspects of it: whether the text
\* starts with "{", whether JSON.parse accepts it, and the parsed object's
\* records field (hasRecords = FALSE: the object has no records field).
BodyOf(brace, valid, has, recs) ==
  [startsBrace |-> brace, validJson |-> valid, hasRecords |-> has, records |-> recs]

HtmlBody == BodyOf(FALSE, FALSE, FALSE, <<>>)       \* "<html>...": an error page
TruncatedBody == BodyOf(TRUE, FALSE, FALSE, <<>>)   \* "{\"records\":[": cut short
NoRecordsBody == BodyOf(TRUE, TRUE, FALSE, <<>>)    \* "{}"
EmptyRecordsBody == BodyOf(TRUE, TRUE, TRUE, <<>>)  \* "{\"records\":[]}"
DataBodyA ==
  BodyOf(TRUE, TRUE, TRUE,
         << Rec("Sangli APMC", 300, 500, 400),
            Rec("Sangli APMC", 320, 521, 420),
            Rec("Kavathe Mahankal", 400, 500, 450) >>)
DataBodyB ==
  BodyOf(TRUE, TRUE, TRUE,
         << Rec("Sangli APMC", 10, 20, 15),
            Rec("Sangli APMC", 20, 30, 25) >>)

\* what the remote source may answer to any call (it may change between calls)
Bodies ==
  {HtmlBody, TruncatedBody, NoRecordsBody, EmptyRecordsBody, DataBodyA, DataBodyB}

\* no body received yet
NoBody == BodyOf(FALSE, FALSE, FALSE, << Rec("", 0, 0, 0) >>)

(* ----------------------------- aggregation ----------------------------- *)
\* a Math.round that truncates the fraction
MathRound_Floor(total, count) == total \div count

\* Math.round(total / count) for count > 0: nearest integer, ties upwards
MathRound(total, count) == (2 * total + count) \div (2 * count)

\* position of market name m among the groups gs (0 when absent)
GroupIndex(gs, m) ==
  IF \E k \in 1..Len(gs) : gs[k].market = m
    THEN CHOOSE k \in 1..Len(gs) : gs[k].market = m
    ELSE 0

\* Property names every plain object {} inherits from Object.prototype: for
\* these acc[marketName] is truthy although acc has no such own property.
ObjectPrototypeNames ==
  {"constructor", "toString", "valueOf", "hasOwnProperty", "__proto__"}

\* Own property names that are canonical array indices, with their values:
\* Object.values lists these first, in ascending numeric order.
ArrayIndexValue == ("7" :> 7) @@ ("10" :> 10)
ArrayIndexNames == DOMAIN ArrayIndexValue

\* a reduce callback that keeps the last record of a market instead of adding
ReduceStep_LastWins(acc, record) ==
  LET marketName == record.Market
      k == GroupIndex(acc, marketName)
      acc1 == IF k = 0
                THEN Append(acc, [market |-> marketName, minTotal |-> 0,
                                  maxTotal |-> 0, modalTotal |-> 0, count |-> 0])
                ELSE acc
      j == GroupIndex(acc1, marketName)
  IN [acc1 EXCEPT ![j] = [market |-> acc1[j].market,
                          minTotal |-> record.Min_Price,
                          maxTotal |-> record.Max_Price,
                          modalTotal |-> record.Modal_Price,
                          count |-> 1]]

\* One step of the reduce callback: create the group on first sight, then add.
\* For a name inherited from Object.prototype the test !acc[marketName] is
\* false, no group is created and the additions land on the inherited object:
\* acc gets no own property.
ReduceStep(acc, record) ==
  LET marketName == record.Market
      k == GroupIndex(acc, marketName)
      acc1 == IF k = 0
                THEN Append(acc, [market |-> marketName, minTotal |-> 0,
                                  maxTotal |-> 0, modalTotal |-> 0, count |-> 0])
                ELSE acc
      j == GroupIndex(acc1, marketName)
  IN IF marketName \in ObjectPrototypeNames
       THEN acc
       ELSE [acc1 EXCEPT ![j] =
               [market |-> acc1[j].market,
                minTotal |-> acc1[j].minTotal + record.Min_Price,
                maxTotal |-> acc1[j].maxTotal + record.Max_Price,
                modalTotal |-> acc1[j].modalTotal + record.Modal_Price,
                count |-> acc1[j].count + 1]]

\* rawRecords.reduce(..., {}): the own properties of acc, in creation order
RECURSIVE MarketGroups(_)
MarketGroups(rawRecords) ==
  IF rawRecords = <<>>
    THEN <<>>
    ELSE ReduceStep(MarketGroups(SubSeq(rawRecords, 1, Len(rawRecords) - 1)),
                    rawRecords[Len(rawRecords)])

\* the groups gs sorted by the array index their market name denotes
RECURSIVE SortByIndex(_)
SortByIndex(gs) ==
  IF gs = <<>>
    THEN <<>>
    ELSE LET m == CHOOSE k \in 1..Len(gs) :
                    \A j \in 1..Len(gs) :
                      ArrayIndexValue[gs[k].market] <= ArrayIndexValue[gs[j].market]
             rest == [n \in 1..(Len(gs) - 1) |-> IF n < m THEN gs[n] ELSE gs[n + 1]]
         IN << gs[m] >> \o SortByIndex(rest)

IsIndexGroup(g) == g.market \in ArrayIndexNames
IsNameGroup(g) == g.market \notin ArrayIndexNames

\* Object.values(obj) of a plain object whose own properties were created in
\* the order of groups: array-index names first, ascending, then the other
\* names in creation order
ObjectValues(groups) ==
  SortByIndex(SelectSeq(groups, IsIndexGroup)) \o SelectSeq(groups, IsNameGroup)

\* Object.values(marketGroups).map(...)
ParsedRates(rawRecords) ==
  LET gs == ObjectValues(MarketGroups(rawRecords))
  IN [k \in 1..Len(gs) |->
        [market |-> gs[k].market,
         minPrice |-> MathRound(gs[k].minTotal, gs[k].count),
         maxPrice |-> MathRound(gs[k].maxTotal, gs[k].count),
         modalPrice |-> MathRound(gs[k].modalTotal, gs[k].count)]]

\* data.records || []
RawRecords(body) == IF body.hasRecords THEN body.records ELSE <<>>

(* ------------------------------ cache keys ----------------------------- *)
\* today(): the ISO date of UTC day number d
today(d) == "2024-05-0" \o ToString(d)

\* a key without its date part
DocId_NoDate(district, commodity, date) == district \o "_" \o commodity

\* `${district}_${commodity}_${date}`
DocId(district, commodity, date) == district \o "_" \o commodity \o "_" \o date

DocIds == {DocId(d, c, today(t)) : d \in DISTRICTS, c \in COMMODITIES, t \in Days}

\* the selections the component offers, and their document ids on day 1
LoadDistricts == {"Sangli", "Kolhapur"}
LoadCommodities == {"Tomato", "Onion"}
LoadDocIds == {DocId(d, c, today(1)) : d \in LoadDistricts, c \in LoadCommodities}

(* -------------------------------- state -------------------------------- *)
VARIABLES
  day,            \* the current UTC day number
  clock,          \* the server's clock, read by serverTimestamp()
  store,          \* the liveRates collection: document id -> document
  pc,             \* each invocation's position
  commodity,      \* each invocation's commodity argument
  district,       \* each invocation's district argument
  date,           \* each invocation's local `date`
  docId,          \* each invocation's local `docId`
  text,           \* each invocation's local `text` (the response body)
  parsedRates,    \* each invocation's local `parsedRates`
  result,         \* the list an invocation returned to its caller
  error,          \* the exception an invocation raised to its caller
  readOutcome,    \* how the invocation's getDoc ended: hit, miss or fail
  writeOutcome,   \* how the invocation's setDoc ended: ok or fail
  log,            \* the external calls of each invocation, issued (?) and ended (!)
  existedAtStart, \* whether the invocation's key had an entry when it started
  finishedBefore, \* the invocations that had ended when this one started
  wroteAt,        \* the server time at which the invocation's setDoc was applied
  lastWriter,     \* per document id, the invocation whose setDoc completed last
  writes,         \* per document id, the number of completed setDoc calls
  agg,            \* the aggregation run on its own: its input and its output
  keyq,           \* the keys of a series of queries: built, read and written
  wr,             \* one document of liveRates and the calls that shared it
  ui,             \* the LiveRates component: its state, its loads and their cache
  eq,             \* the two getCachedMarketRates run on the same outcomes
  shop,           \* the Marketplace component: its checkout state and timers
  sow             \* the SowingModule component: its form and its submissions

vars ==
  << day, clock, store, pc, commodity, district, date, docId, text,
     parsedRates, result, error, readOutcome, writeOutcome, log, existedAtStart,
     finishedBefore, wroteAt, lastWriter, writes, agg, keyq, wr, ui, eq, shop,
     sow >>

\* the state of getCachedMarketRates' invocations and of the store
ratesVars ==
  << day, clock, store, pc, commodity, district, date, docId, text,
     parsedRates, result, error, readOutcome, writeOutcome, log, existedAtStart,
     finishedBefore, wroteAt, lastWriter, writes >>

\* the state used only by the other specifications
others == << agg, keyq, wr, ui, eq, shop, sow >>

locals == << commodity, district, date, docId >>
ghosts == << existedAtStart, finishedBefore, wroteAt >>

\* snap.exists() is false
NoDoc ==
  [exists |-> FALSE, district |-> "", commodity |-> "", date |-> "",
   rates |-> <<>>, createdAt |-> 0]

\* an entry stamped with the day of the write instead of the local `date`
CacheEntry_DateOfWrite(d, c, t, rates, now) ==
  [exists |-> TRUE, district |-> d, commodity |-> c, date |-> today(day),
   rates |-> rates, createdAt |-> now]

\* an entry that keeps the fields of the query but not the list
CacheEntry_NoRates(d, c, t, rates, now) ==
  [exists |-> TRUE, district |-> d, commodity |-> c, date |-> t,
   rates |-> <<>>, createdAt |-> now]

\* { district, commodity, date, rates: parsedRates, createdAt: serverTimestamp() }
CacheEntry(d, c, t, rates, now) ==
  [exists |-> TRUE, district |-> d, commodity |-> c, date |-> t,
   rates |-> rates, createdAt |-> now]

\* doc(db, "liveRates", docId) of invocation i: the document it addresses
ref(i) == docId[i]

\* a setDoc that keeps a document that is already there (first writer wins)
SetDoc_KeepExisting(st, k, data) ==
  IF st[k].exists THEN st ELSE [st EXCEPT ![k] = data]

\* a setDoc that also expires the entries of the other days
SetDoc_ExpireOthers(st, k, data) ==
  [x \in DOMAIN st |-> IF x = k THEN data ELSE NoDoc]

\* setDoc(ref, data) without merge options: the document is replaced whole
SetDoc(st, k, data) == [st EXCEPT ![k] = data]

Ended(i) == pc[i] \in {"returned", "raised"}

\* no outcomes drawn yet for the two getCachedMarketRates
NoInput ==
  [existed |-> FALSE, readOk |-> FALSE, envLocal |-> FALSE, netOk |-> FALSE,
   body |-> NoBody, writeOk |-> FALSE]

\* a getCachedMarketRates that has not run
NoRun == [key |-> "", ops |-> <<>>, outcome |-> ""]

\* no handleVerify is running
NoClosure == [category |-> "", name |-> "", area |-> ""]

Init ==
  /\ day = 1
  /\ clock = 1
  /\ store = [k \in DocIds |-> NoDoc]
  /\ pc = [i \in Inv |-> "idle"]
  /\ commodity = [i \in Inv |-> ""]
  /\ district = [i \in Inv |-> ""]
  /\ date = [i \in Inv |-> ""]
  /\ docId = [i \in Inv |-> ""]
  /\ text = [i \in Inv |-> NoBody]
  /\ parsedRates = [i \in Inv |-> <<>>]
  /\ result = [i \in Inv |-> <<>>]
  /\ error = [i \in Inv |-> "none"]
  /\ readOutcome = [i \in Inv |-> "none"]
  /\ writeOutcome = [i \in Inv |-> "none"]
  /\ log = [i \in Inv |-> <<>>]
  /\ existedAtStart = [i \in Inv |-> FALSE]
  /\ finishedBefore = [i \in Inv |-> {}]
  /\ wroteAt = [i \in Inv |-> 0]
  /\ lastWriter = [k \in DocIds |-> 0]
  /\ writes = [k \in DocIds |-> 0]
  /\ agg = [records |-> <<>>, rates |-> <<>>, done |-> FALSE]
  /\ keyq = <<>>
  /\ wr = [doc |-> [exists |-> FALSE, rates |-> <<>>], ended |-> <<>>]
  /\ ui = [district |-> "Sangli", commodity |-> "Tomato", rates |-> <<>>,
           loading |-> FALSE, error |-> "", loads |-> <<>>,
           cache |-> [k \in LoadDocIds |-> NoDoc]]
  /\ eq = [phase |-> "idle", input |-> NoInput, module |-> NoRun,
           service |-> NoRun]
  /\ shop = [checkoutProduct |-> "null", checkoutQuantity |-> 1,
             isProcessingPayment |-> FALSE, paymentMethod |-> "upi",
             orderConfirmed |-> FALSE, orderId |-> "", timers |-> <<>>,
             session |-> 0, paidIn |-> {}]
  /\ sow = [variant |-> "", category |-> "VEGETABLE", cropName |-> "",
            area |-> "", sowingDate |-> "", harvestDate |-> "",
            image |-> "null", verifying |-> FALSE, aiFeedback |-> "null",
            vegRecords |-> <<>>, fruitRecords |-> <<>>, flowerRecords |-> <<>>,
            sowing_records |-> <<>>, subs |-> <<>>, closure |-> NoClosure]

(* ------------------------------- actions ------------------------------- *)
\* The UTC calendar day changes.
Midnight ==
  /\ day < MaxDay
  /\ day' = day + 1
  /\ UNCHANGED << clock, store, pc, locals, text, parsedRates,
                  result, error, readOutcome, writeOutcome, log, existedAtStart,
                  finishedBefore, wroteAt, lastWriter, writes >>

\* getCachedMarketRates(c, d) is called: date and docId are computed and
\* getDoc(ref) is issued.
Start(i, c, d) ==
  /\ pc[i] = "idle"
  /\ \A j \in Inv : j < i => pc[j] # "idle"
  /\ commodity' = [commodity EXCEPT ![i] = c]
  /\ district' = [district EXCEPT ![i] = d]
  /\ date' = [date EXCEPT ![i] = today(day)]
  /\ docId' = [docId EXCEPT ![i] = DocId(d, c, today(day))]
  /\ pc' = [pc EXCEPT ![i] = "getDoc"]
  /\ log' = [log EXCEPT ![i] = Append(@, "getDoc?")]
  /\ existedAtStart' =
       [existedAtStart EXCEPT ![i] = store[DocId(d, c, today(day))].exists]
  /\ finishedBefore' = [finishedBefore EXCEPT ![i] = {j \in Inv : Ended(j)}]
  /\ UNCHANGED << day, clock, store, text, parsedRates, result, error,
                  readOutcome, writeOutcome, wroteAt, lastWriter, writes >>

\* a hit that re-validates: the `return` is missing and the fetch goes ahead
GetDocHit_Refetch(i) ==
  /\ pc[i] = "getDoc"
  /\ store[ref(i)].exists
  /\ readOutcome' = [readOutcome EXCEPT ![i] = "hit"]
  /\ log' = [log EXCEPT ![i] = @ \o << "getDoc!", "fetch?" >>]
  /\ pc' = [pc EXCEPT ![i] = "fetch"]
  /\ UNCHANGED << day, clock, store, locals, text, parsedRates, result, error,
                  writeOutcome, ghosts, lastWriter, writes >>

\* a hit that returns an empty list instead of the stored rates
GetDocHit_DropRates(i) ==
  /\ pc[i] = "getDoc"
  /\ store[ref(i)].exists
  /\ readOutcome' = [readOutcome EXCEPT ![i] = "hit"]
  /\ log' = [log EXCEPT ![i] = Append(@, "getDoc!")]
  /\ result' = [result EXCEPT ![i] = <<>>]
  /\ pc' = [pc EXCEPT ![i] = "returned"]
  /\ UNCHANGED << day, clock, store, locals, text, parsedRates, error,
                  writeOutcome, ghosts, lastWriter, writes >>

\* getDoc resolves with a snapshot that exists: return snap.data().rates
GetDocHit(i) ==
  /\ pc[i] = "getDoc"
  /\ store[ref(i)].exists
  /\ readOutcome' = [readOutcome EXCEPT ![i] = "hit"]
  /\ log' = [log EXCEPT ![i] = Append(@, "getDoc!")]
  /\ result' = [result EXCEPT ![i] = store[ref(i)].rates]
  /\ pc' = [pc EXCEPT ![i] = "returned"]
  /\ UNCHANGED << day, clock, store, locals, text, parsedRates, error,
                  writeOutcome, ghosts, lastWriter, writes >>

\* a miss path taken without the snap.exists() test
GetDocMiss_NoExistsTest(i) ==
  /\ pc[i] = "getDoc"
  /\ readOutcome' = [readOutcome EXCEPT ![i] = "miss"]
  /\ log' = [log EXCEPT ![i] = @ \o << "getDoc!", "fetch?" >>]
  /\ pc' = [pc EXCEPT ![i] = "fetch"]
  /\ UNCHANGED << day, clock, store, locals, text, parsedRates, result, error,
                  writeOutcome, ghosts, lastWriter, writes >>

\* getDoc resolves with a snapshot that does not exist: fall through to fetch
GetDocMiss(i) ==
  /\ pc[i] = "getDoc"
  /\ ~ store[ref(i)].exists
  /\ readOutcome' = [readOutcome EXCEPT ![i] = "miss"]
  /\ log' = [log EXCEPT ![i] = @ \o << "getDoc!", "fetch?" >>]
  /\ pc' = [pc EXCEPT ![i] = "fetch"]
  /\ UNCHANGED << day, clock, store, locals, text, parsedRates, result, error,
                  writeOutcome, ghosts, lastWriter, writes >>

\* a getDoc outside any try block: its rejection reaches the caller
GetDocFail_Raise(i) ==
  /\ pc[i] = "getDoc"
  /\ readOutcome' = [readOutcome EXCEPT ![i] = "fail"]
  /\ log' = [log EXCEPT ![i] = Append(@, "getDoc!")]
  /\ error' = [error EXCEPT ![i] = "FirestoreError"]
  /\ pc' = [pc EXCEPT ![i] = "raised"]
  /\ UNCHANGED << day, clock, store, locals, text, parsedRates, result,
                  writeOutcome, ghosts, lastWriter, writes >>

\* getDoc rejects: the catch block logs a warning and falls through to fetch
GetDocFail(i) ==
  /\ pc[i] = "getDoc"
  /\ readOutcome' = [readOutcome EXCEPT ![i] = "fail"]
  /\ log' = [log EXCEPT ![i] = @ \o << "getDoc!", "fetch?" >>]
  /\ pc' = [pc EXCEPT ![i] = "fetch"]
  /\ UNCHANGED << day, clock, store, locals, text, parsedRates, result, error,
                  writeOutcome, ghosts, lastWriter, writes >>

\* The HTTP exchange fails at the transport level: fetch rejects, or
\* res.text() rejects while the body is read. The exception reaches the caller.
FetchThrow(i) ==
  /\ pc[i] = "fetch"
  /\ log' = [log EXCEPT ![i] = Append(@, "fetch!")]
  /\ error' = [error EXCEPT ![i] = "NetworkError"]
  /\ pc' = [pc EXCEPT ![i] = "raised"]
  /\ UNCHANGED << day, clock, store, locals, text, parsedRates, result,
                  readOutcome, writeOutcome, ghosts, lastWriter, writes >>

\* The body is not a JSON object text: return [] at once
ReturnEmpty(i) ==
  /\ log' = [log EXCEPT ![i] = Append(@, "fetch!")]
  /\ result' = [result EXCEPT ![i] = <<>>]
  /\ pc' = [pc EXCEPT ![i] = "returned"]
  /\ UNCHANGED << parsedRates, error >>

\* JSON.parse(text) throws: nothing catches it
ParseThrow(i) ==
  /\ log' = [log EXCEPT ![i] = Append(@, "fetch!")]
  /\ error' = [error EXCEPT ![i] = "SyntaxError"]
  /\ pc' = [pc EXCEPT ![i] = "raised"]
  /\ UNCHANGED << parsedRates, result >>

\* a second HTTP call issued to re-check the data while setDoc is issued
AggregateAndWrite_Recheck(i, body) ==
  /\ log' = [log EXCEPT ![i] = @ \o << "fetch!", "fetch?", "setDoc?" >>]
  /\ parsedRates' = [parsedRates EXCEPT ![i] = ParsedRates(RawRecords(body))]
  /\ pc' = [pc EXCEPT ![i] = "setDoc"]
  /\ UNCHANGED << result, error >>

\* the records are aggregated and setDoc(ref, ...) is issued
AggregateAndWrite(i, body) ==
  /\ log' = [log EXCEPT ![i] = @ \o << "fetch!", "setDoc?" >>]
  /\ parsedRates' = [parsedRates EXCEPT ![i] = ParsedRates(RawRecords(body))]
  /\ pc' = [pc EXCEPT ![i] = "setDoc"]
  /\ UNCHANGED << result, error >>

\* fetch and res.text() resolve with body: the startsWith check, JSON.parse,
\* the aggregation, and the issue of setDoc
FetchBody(i, body) ==
  /\ pc[i] = "fetch"
  /\ text' = [text EXCEPT ![i] = body]
  /\ IF ~ body.startsBrace
       THEN ReturnEmpty(i)
       ELSE IF ~ body.validJson
              THEN ParseThrow(i)
              ELSE AggregateAndWrite(i, body)
  /\ UNCHANGED << day, clock, store, locals, readOutcome, writeOutcome, ghosts,
                  lastWriter, writes >>

\* setDoc resolves: the entry is stored with the server's timestamp; return
SetDocOk(i) ==
  /\ pc[i] = "setDoc"
  /\ store' = SetDoc(store, ref(i),
                     CacheEntry(district[i], commodity[i], date[i],
                                parsedRates[i], clock))
  /\ clock' = clock + 1
  /\ writeOutcome' = [writeOutcome EXCEPT ![i] = "ok"]
  /\ wroteAt' = [wroteAt EXCEPT ![i] = clock]
  /\ lastWriter' = [lastWriter EXCEPT ![ref(i)] = i]
  /\ writes' = [writes EXCEPT ![ref(i)] = @ + 1]
  /\ log' = [log EXCEPT ![i] = Append(@, "setDoc!")]
  /\ result' = [result EXCEPT ![i] = parsedRates[i]]
  /\ pc' = [pc EXCEPT ![i] = "returned"]
  /\ UNCHANGED << day, locals, text, parsedRates, error, readOutcome,
                  existedAtStart, finishedBefore >>

\* a setDoc outside any try block: its rejection reaches the caller
SetDocFail_Raise(i) ==
  /\ pc[i] = "setDoc"
  /\ writeOutcome' = [writeOutcome EXCEPT ![i] = "fail"]
  /\ log' = [log EXCEPT ![i] = Append(@, "setDoc!")]
  /\ error' = [error EXCEPT ![i] = "FirestoreError"]
  /\ pc' = [pc EXCEPT ![i] = "raised"]
  /\ UNCHANGED << day, clock, store, locals, text, parsedRates, result,
                  readOutcome, ghosts, lastWriter, writes >>

\* setDoc rejects: the catch block logs a warning; return parsedRates
SetDocFail(i) ==
  /\ pc[i] = "setDoc"
  /\ writeOutcome' = [writeOutcome EXCEPT ![i] = "fail"]
  /\ log' = [log EXCEPT ![i] = Append(@, "setDoc!")]
  /\ result' = [result EXCEPT ![i] = parsedRates[i]]
  /\ pc' = [pc EXCEPT ![i] = "returned"]
  /\ UNCHANGED << day, clock, store, locals, text, parsedRates, error,
                  readOutcome, ghosts, lastWriter, writes >>

Next ==
  \/ Midnight /\ UNCHANGED others
  \/ \E i \in Inv, c \in COMMODITIES, d \in DISTRICTS :
       Start(i, c, d) /\ UNCHANGED others
  \/ \E i \in Inv : GetDocHit(i) /\ UNCHANGED others
  \/ \E i \in Inv : GetDocMiss(i) /\ UNCHANGED others
  \/ \E i \in Inv : GetDocFail(i) /\ UNCHANGED others
  \/ \E i \in Inv : FetchThrow(i) /\ UNCHANGED others
  \/ \E i \in Inv, body \in Bodies : FetchBody(i, body) /\ UNCHANGED others
  \/ \E i \in Inv : SetDocOk(i) /\ UNCHANGED others
  \/ \E i \in Inv : SetDocFail(i) /\ UNCHANGED others

Spec == Init /\ [][Next]_vars

(* ----------------------- the aggregation on its own -------------------- *)
\* market names of the records given to the aggregation
AggMarkets == {"Sangli APMC", "Kavathe Mahankal", "7", "constructor"}

\* the price columns (Min_Price, Max_Price, Modal_Price) of those records
AggPrices == { <<10, 20, 15>>, <<20, 30, 25>>, <<-5, 21, 420>> }

AggRecords == {Rec(m, p[1], p[2], p[3]) : m \in AggMarkets, p \in AggPrices}

\* the remote source lists one more record
AggReceive(r) ==
  /\ ~ agg.done
  /\ Len(agg.records) < MaxRecords
  /\ agg' = [agg EXCEPT !.records = Append(@, r)]
  /\ UNCHANGED << ratesVars, keyq, wr, ui, eq, shop, sow >>

\* the reduce and the map of getCachedMarketRates run on the records
AggRun ==
  /\ ~ agg.done
  /\ agg' = [agg EXCEPT !.rates = ParsedRates(agg.records), !.done = TRUE]
  /\ UNCHANGED << ratesVars, keyq, wr, ui, eq, shop, sow >>

AggNext ==
  \/ \E r \in AggRecords : AggReceive(r)
  \/ AggRun

AggSpec == Init /\ [][AggNext]_vars

(* ------------------ the keys of queries, on their own ------------------- *)
\* district and commodity arguments, with and without a "_" of their own
KeyDistricts == {"Sangli", "Sangli_Green"}
KeyCommodities == {"Chilli", "Green_Chilli"}

\* A query begins: `date`, `docId` and `ref` are computed, once.
KeyBegin(c, d) ==
  /\ Len(keyq) < NumInv
  /\ keyq' = Append(keyq,
                    [district |-> d, commodity |-> c, date |-> today(day),
                     docId |-> DocId(d, c, today(day)),
                     read |-> "", written |-> "",
                     readDay |-> 0, writeDay |-> 0])
  /\ UNCHANGED << ratesVars, agg, wr, ui, eq, shop, sow >>

\* getDoc(ref): the lookup addresses the document named docId
KeyGetDoc(q) ==
  /\ keyq[q].read = ""
  /\ keyq' = [keyq EXCEPT ![q].read = keyq[q].docId, ![q].readDay = day]
  /\ UNCHANGED << ratesVars, agg, wr, ui, eq, shop, sow >>

\* a write whose key is built again, from the date at the time of the write
KeySetDoc_DateOfWrite(q) ==
  /\ keyq[q].read # ""
  /\ keyq[q].written = ""
  /\ keyq' = [keyq EXCEPT ![q].written =
                 DocId(keyq[q].district, keyq[q].commodity, today(day)),
                          ![q].writeDay = day]
  /\ UNCHANGED << ratesVars, agg, wr, ui, eq, shop, sow >>

\* setDoc(ref, ...): the write addresses the document named docId
KeySetDoc(q) ==
  /\ keyq[q].read # ""
  /\ keyq[q].written = ""
  /\ keyq' = [keyq EXCEPT ![q].written = keyq[q].docId, ![q].writeDay = day]
  /\ UNCHANGED << ratesVars, agg, wr, ui, eq, shop, sow >>

KeyNext ==
  \/ Midnight /\ UNCHANGED others
  \/ \E c \in KeyCommodities, d \in KeyDistricts : KeyBegin(c, d)
  \/ \E q \in 1..Len(keyq) : KeyGetDoc(q)
  \/ \E q \in 1..Len(keyq) : KeySetDoc(q)

KeySpec == Init /\ [][KeyNext]_vars

(* ------- the routines that share the liveRates collection, in turn ------ *)
\* services/marketRates.ts: one { market, price } per record
ServiceRates(records) ==
  [k \in 1..Len(records) |->
    [market |-> records[k].Market, price |-> records[k].Modal_Price]]

\* the component with several prices: one entry per record
ComponentRates(records) ==
  [k \in 1..Len(records) |->
    [market |-> records[k].Market, modalPrice |-> records[k].Modal_Price,
     minPrice |-> records[k].Min_Price, maxPrice |-> records[k].Max_Price]]

\* the invocation ends: what it returned or that it raised, and the document
WrEnd(by, outcome, rates, document) ==
  wr' = [doc |-> document,
         ended |-> Append(wr.ended,
                          [by |-> by, outcome |-> outcome, returned |-> rates])]

\* the document after setDoc(ref, { ..., rates }) that succeeded or not
WrSetDoc(rates, writeOk) ==
  IF writeOk THEN [exists |-> TRUE, rates |-> rates] ELSE wr.doc

\* One invocation of getCachedMarketRates of modules/LiveRates.tsx on the
\* document, from its getDoc to its return; readOk, netOk and writeOk are
\* the outcomes of getDoc, of fetch and of setDoc, body is the response.
ModuleGetCachedMarketRates(readOk, netOk, body, writeOk) ==
  /\ Len(wr.ended) < NumInv
  /\ IF readOk /\ wr.doc.exists
       THEN WrEnd("module", "returned", wr.doc.rates, wr.doc)
     ELSE IF ~ netOk
       THEN WrEnd("module", "raised", <<>>, wr.doc)
     ELSE IF ~ body.startsBrace
       THEN WrEnd("module", "returned", <<>>, wr.doc)
     ELSE IF ~ body.validJson
       THEN WrEnd("module", "raised", <<>>, wr.doc)
     ELSE LET rates == ParsedRates(RawRecords(body))
          IN WrEnd("module", "returned", rates, WrSetDoc(rates, writeOk))
  /\ UNCHANGED << ratesVars, agg, keyq, ui, eq, shop, sow >>

\* One invocation of getCachedMarketRates of the component with several
\* prices: as above, but the records are mapped one to one.
ComponentGetCachedMarketRates(readOk, netOk, body, writeOk) ==
  /\ Len(wr.ended) < NumInv
  /\ IF readOk /\ wr.doc.exists
       THEN WrEnd("component", "returned", wr.doc.rates, wr.doc)
     ELSE IF ~ netOk
       THEN WrEnd("component", "raised", <<>>, wr.doc)
     ELSE IF ~ body.startsBrace
       THEN WrEnd("component", "returned", <<>>, wr.doc)
     ELSE IF ~ body.validJson
       THEN WrEnd("component", "raised", <<>>, wr.doc)
     ELSE LET rates == ComponentRates(RawRecords(body))
          IN WrEnd("component", "returned", rates, WrSetDoc(rates, writeOk))
  /\ UNCHANGED << ratesVars, agg, keyq, ui, eq, shop, sow >>

\* One invocation of the exported getCachedMarketRates of
\* services/marketRates.ts: no try around getDoc or setDoc, res.json() for
\* the body; the URL reads import.meta.env.local.VITE_DATA_GOV_API, which
\* raises a TypeError unless the build defines import.meta.env.local
\* (envLocal).
ServiceGetCachedMarketRates(readOk, envLocal, netOk, body, writeOk) ==
  /\ Len(wr.ended) < NumInv
  /\ IF ~ readOk
       THEN WrEnd("service", "raised", <<>>, wr.doc)
     ELSE IF wr.doc.exists
       THEN WrEnd("service", "returned", wr.doc.rates, wr.doc)
     ELSE IF ~ envLocal \/ ~ netOk \/ ~ body.validJson
       THEN WrEnd("service", "raised", <<>>, wr.doc)
     ELSE LET rates == ServiceRates(RawRecords(body))
          IN IF writeOk
               THEN WrEnd("service", "returned", rates, WrSetDoc(rates, TRUE))
               ELSE WrEnd("service", "raised", <<>>, wr.doc)
  /\ UNCHANGED << ratesVars, agg, keyq, ui, eq, shop, sow >>

WrNext ==
  \/ \E readOk, netOk, writeOk \in BOOLEAN, body \in Bodies :
       ModuleGetCachedMarketRates(readOk, netOk, body, writeOk)
  \/ \E readOk, netOk, writeOk \in BOOLEAN, body \in Bodies :
       ComponentGetCachedMarketRates(readOk, netOk, body, writeOk)
  \/ \E readOk, envLocal, netOk, writeOk \in BOOLEAN, body \in Bodies :
       ServiceGetCachedMarketRates(readOk, envLocal, netOk, body, writeOk)

WrSpec == Init /\ [][WrNext]_vars

(* ------------------- the component and its loads ------------------------ *)
\* what the remote source answers to a load
LoadBodies == {HtmlBody, TruncatedBody, DataBodyA}

\* load n was started and its getCachedMarketRates returned or raised
LoadEnded(n) ==
  /\ n <= Len(ui.loads)
  /\ ui.loads[n].pc \in {"returned", "raised"}

\* the effect runs loadRates: setLoading(true), setError(""), and the call
\* of getCachedMarketRates(c, d) up to its getDoc
LoadRatesBegin(u, c, d) ==
  [u EXCEPT !.loading = TRUE,
            !.error = "",
            !.loads = Append(@, [commodity |-> c, district |-> d,
                                 date |-> today(day),
                                 docId |-> DocId(d, c, today(day)),
                                 pc |-> "getDoc", log |-> << "getDoc?" >>,
                                 parsedRates |-> <<>>, result |-> <<>>])]

\* a loadRates whose setLoading(false) follows setRates in the try block
LoadRatesEnd_NoFinally(u, n, ok, data, calls) ==
  [u EXCEPT !.rates = IF ok THEN data ELSE @,
            !.error = IF ok THEN @ ELSE "Failed to load market rates",
            !.loading = IF ok THEN FALSE ELSE @,
            !.loads[n].pc = IF ok THEN "returned" ELSE "raised",
            !.loads[n].result = IF ok THEN data ELSE @,
            !.loads[n].log = @ \o calls]

\* a loadRates whose catch also empties the list: setRates([])
LoadRatesEnd_ClearRates(u, n, ok, data, calls) ==
  [u EXCEPT !.rates = IF ok THEN data ELSE <<>>,
            !.error = IF ok THEN @ ELSE "Failed to load market rates",
            !.loading = FALSE,
            !.loads[n].pc = IF ok THEN "returned" ELSE "raised",
            !.loads[n].result = IF ok THEN data ELSE @,
            !.loads[n].log = @ \o calls]

\* getCachedMarketRates of load n returned data (ok) or raised, after the
\* calls; loadRates goes on: setRates(data) or setError(...), and in the
\* finally setLoading(false)
LoadRatesEnd(u, n, ok, data, calls) ==
  [u EXCEPT !.rates = IF ok THEN data ELSE @,
            !.error = IF ok THEN @ ELSE "Failed to load market rates",
            !.loading = FALSE,
            !.loads[n].pc = IF ok THEN "returned" ELSE "raised",
            !.loads[n].result = IF ok THEN data ELSE @,
            !.loads[n].log = @ \o calls]

\* The component mounts: the effect runs for the initial selection.
Mount ==
  /\ Len(ui.loads) = 0
  /\ ui' = LoadRatesBegin(ui, ui.commodity, ui.district)
  /\ UNCHANGED << ratesVars, agg, keyq, wr, eq, shop, sow >>

\* onChange of the district select: setDistrict(d), and the effect runs
SetDistrict(d) ==
  /\ Len(ui.loads) \in 1..(NumLoads - 1)
  /\ d # ui.district
  /\ ui' = LoadRatesBegin([ui EXCEPT !.district = d], ui.commodity, d)
  /\ UNCHANGED << ratesVars, agg, keyq, wr, eq, shop, sow >>

\* onChange of the commodity select: setCommodity(c), and the effect runs
SetCommodity(c) ==
  /\ Len(ui.loads) \in 1..(NumLoads - 1)
  /\ c # ui.commodity
  /\ ui' = LoadRatesBegin([ui EXCEPT !.commodity = c], c, ui.district)
  /\ UNCHANGED << ratesVars, agg, keyq, wr, eq, shop, sow >>

\* getDoc of load n resolves with a snapshot that exists
LoadGetDocHit(n) ==
  /\ n <= Len(ui.loads)
  /\ ui.loads[n].pc = "getDoc"
  /\ ui.cache[ui.loads[n].docId].exists
  /\ ui' = LoadRatesEnd(ui, n, TRUE, ui.cache[ui.loads[n].docId].rates,
                        << "getDoc!" >>)
  /\ UNCHANGED << ratesVars, agg, keyq, wr, eq, shop, sow >>

\* getDoc of load n resolves with a snapshot that does not exist
LoadGetDocMiss(n) ==
  /\ n <= Len(ui.loads)
  /\ ui.loads[n].pc = "getDoc"
  /\ ~ ui.cache[ui.loads[n].docId].exists
  /\ ui' = [ui EXCEPT !.loads[n].pc = "fetch",
                      !.loads[n].log = @ \o << "getDoc!", "fetch?" >>]
  /\ UNCHANGED << ratesVars, agg, keyq, wr, eq, shop, sow >>

\* getDoc of load n rejects: warned about, and the fetch goes ahead
LoadGetDocFail(n) ==
  /\ n <= Len(ui.loads)
  /\ ui.loads[n].pc = "getDoc"
  /\ ui' = [ui EXCEPT !.loads[n].pc = "fetch",
                      !.loads[n].log = @ \o << "getDoc!", "fetch?" >>]
  /\ UNCHANGED << ratesVars, agg, keyq, wr, eq, shop, sow >>

\* fetch or res.text() of load n rejects
LoadFetchThrow(n) ==
  /\ n <= Len(ui.loads)
  /\ ui.loads[n].pc = "fetch"
  /\ ui' = LoadRatesEnd(ui, n, FALSE, <<>>, << "fetch!" >>)
  /\ UNCHANGED << ratesVars, agg, keyq, wr, eq, shop, sow >>

\* the response of load n arrives: return [], JSON.parse throws, or the
\* records are aggregated and setDoc is issued
LoadFetchBody(n, body) ==
  /\ n <= Len(ui.loads)
  /\ ui.loads[n].pc = "fetch"
  /\ ui' = IF ~ body.startsBrace
             THEN LoadRatesEnd(ui, n, TRUE, <<>>, << "fetch!" >>)
           ELSE IF ~ body.validJson
             THEN LoadRatesEnd(ui, n, FALSE, <<>>, << "fetch!" >>)
           ELSE [ui EXCEPT !.loads[n].pc = "setDoc",
                           !.loads[n].parsedRates = ParsedRates(RawRecords(body)),
                           !.loads[n].log = @ \o << "fetch!", "setDoc?" >>]
  /\ UNCHANGED << ratesVars, agg, keyq, wr, eq, shop, sow >>

\* setDoc of load n resolves
LoadSetDocOk(n) ==
  /\ n <= Len(ui.loads)
  /\ ui.loads[n].pc = "setDoc"
  /\ ui' = LoadRatesEnd(
             [ui EXCEPT !.cache[ui.loads[n].docId] =
                CacheEntry(ui.loads[n].district, ui.loads[n].commodity,
                           ui.loads[n].date, ui.loads[n].parsedRates, clock)],
             n, TRUE, ui.loads[n].parsedRates, << "setDoc!" >>)
  /\ UNCHANGED << ratesVars, agg, keyq, wr, eq, shop, sow >>

\* setDoc of load n rejects: warned about, parsedRates is returned
LoadSetDocFail(n) ==
  /\ n <= Len(ui.loads)
  /\ ui.loads[n].pc = "setDoc"
  /\ ui' = LoadRatesEnd(ui, n, TRUE, ui.loads[n].parsedRates, << "setDoc!" >>)
  /\ UNCHANGED << ratesVars, agg, keyq, wr, eq, shop, sow >>

\* the responses to the three calls of load n
GetDocResponds(n) == LoadGetDocHit(n) \/ LoadGetDocMiss(n) \/ LoadGetDocFail(n)
FetchResponds(n) == LoadFetchThrow(n) \/ \E body \in LoadBodies : LoadFetchBody(n, body)
SetDocResponds(n) == LoadSetDocOk(n) \/ LoadSetDocFail(n)

LoadNext ==
  \/ Mount
  \/ \E d \in LoadDistricts : SetDistrict(d)
  \/ \E c \in LoadCommodities : SetCommodity(c)
  \/ \E n \in 1..NumLoads : LoadGetDocHit(n)
  \/ \E n \in 1..NumLoads : LoadGetDocMiss(n)
  \/ \E n \in 1..NumLoads : LoadGetDocFail(n)
  \/ \E n \in 1..NumLoads : LoadFetchThrow(n)
  \/ \E n \in 1..NumLoads, body \in LoadBodies : LoadFetchBody(n, body)
  \/ \E n \in 1..NumLoads : LoadSetDocOk(n)
  \/ \E n \in 1..NumLoads : LoadSetDocFail(n)

\* every call that was issued is answered in the end, well or badly
LoadSpec ==
  /\ Init
  /\ [][LoadNext]_vars
  /\ \A n \in 1..NumLoads :
       /\ WF_vars(GetDocResponds(n))
       /\ WF_vars(FetchResponds(n))
       /\ WF_vars(SetDocResponds(n))

(* ------------------------- properties: helpers ------------------------- *)
\* event ev is in invocation i's log of external calls
Logged(i, ev) == \E n \in 1..Len(log[i]) : log[i][n] = ev

\* the started invocations whose cache key is k
KeyInv(k) == {i \in Inv : pc[i] # "idle" /\ ref(i) = k}

\* the invocations for key k ran one after another
Sequential(k) ==
  \A a, b \in KeyInv(k) : a < b => a \in finishedBefore[b]

\* none of the cache reads for key k failed
NoReadFailed(k) == \A i \in KeyInv(k) : readOutcome[i] # "fail"

\* the aggregated list of each body with records, computed once
Aggregated == [b \in {x \in Bodies : x.validJson} |-> ParsedRates(RawRecords(b))]

\* the full sequence of external calls of one invocation
CallOrder == << "getDoc?", "getDoc!", "fetch?", "fetch!", "setDoc?", "setDoc!" >>

(* ------------------------------- claims -------------------------------- *)
\* C1: an invocation whose cache lookup finds an entry returns exactly that
\* entry's stored rates, issues no HTTP call and no cache write (its only
\* external call is the getDoc), and leaves the cache store unchanged.
C1_HitReturnsStoredRates ==
  /\ [](\A i \in Inv : readOutcome[i] = "hit" =>
          /\ pc[i] = "returned"
          /\ error[i] = "none"
          /\ log[i] = << "getDoc?", "getDoc!" >>
          /\ writeOutcome[i] = "none")
  /\ [][\A i \in Inv : (pc[i] = "getDoc" /\ readOutcome'[i] = "hit") =>
          /\ store[ref(i)].exists
          /\ result'[i] = store[ref(i)].rates
          /\ store' = store
          /\ writes' = writes]_vars

\* C1 witness: an invocation hit an entry with a non-empty rates list and
\* returned it.
C1_Witness ==
  \E i \in Inv :
    /\ readOutcome[i] = "hit"
    /\ pc[i] = "returned"
    /\ result[i] # <<>>
    /\ result[i] = store[ref(i)].rates

\* C2 as stated: each key receives at most one cache write, whatever the
\* interleaving of the invocations and the outcomes of the external calls.
C2_OneWritePerKey == \A k \in DocIds : writes[k] <= 1

\* C2 amended: when the invocations for a key run one after another and none
\* of their cache reads fails, the key receives at most one cache write and,
\* once an entry is stored, its value never changes.
C2_OneWriteWhenSequential ==
  /\ [](\A k \in DocIds : (Sequential(k) /\ NoReadFailed(k)) => writes[k] <= 1)
  /\ [][\A k \in DocIds :
          (store[k].exists /\ Sequential(k)' /\ NoReadFailed(k)')
            => store'[k] = store[k]]_vars

\* C2 witness: two invocations for one key ran one after another, the first
\* wrote the entry and the second was served from it.
C2_Witness ==
  \E a, b \in Inv :
    /\ a \in finishedBefore[b]
    /\ ref(a) = ref(b)
    /\ writeOutcome[a] = "ok"
    /\ readOutcome[b] = "hit"
    /\ writes[ref(a)] = 1
    /\ Sequential(ref(a)) /\ NoReadFailed(ref(a))

\* C3 as stated, for the case where every cache call succeeds: when b starts
\* after a has returned, for the same district, commodity and date, and no
\* other invocation wrote to the store, b returns the list a returned.
C3_SecondCallReturnsSame ==
  \A a, b \in Inv :
    ( /\ a \in finishedBefore[b]
      /\ pc[a] = "returned" /\ pc[b] = "returned"
      /\ ref(a) = ref(b)
      /\ readOutcome[a] # "fail" /\ readOutcome[b] # "fail"
      /\ writeOutcome[a] # "fail" /\ writeOutcome[b] # "fail"
      /\ \A j \in Inv \ {a, b} : writeOutcome[j] # "ok" )
    => result[a] = result[b]

\* C4 as stated: an invocation raises only when the HTTP call throws, and a
\* body that is not valid JSON makes it return the empty list.
C4_OnlyTransportErrorsRaise ==
  \A i \in Inv :
    /\ pc[i] = "raised" => error[i] = "NetworkError"
    /\ (Ended(i) /\ text[i] # NoBody /\ ~ text[i].validJson)
         => (pc[i] = "returned" /\ result[i] = <<>>)

\* C5: an invocation whose cache read failed went on to the remote fetch as
\* after a miss: the fetch was issued right after the read, nothing was
\* raised by the read, and the invocation can only raise after the fetch ended.
C5_ReadFailureIsMiss ==
  \A i \in Inv : readOutcome[i] = "fail" =>
    /\ pc[i] \in {"fetch", "setDoc", "returned", "raised"}
    /\ Len(log[i]) >= 3
    /\ SubSeq(log[i], 1, 3) = << "getDoc?", "getDoc!", "fetch?" >>
    /\ pc[i] = "raised" => (Logged(i, "fetch!") /\ error[i] # "FirestoreError")
    /\ pc[i] = "fetch" => (error[i] = "none" /\ result[i] = <<>>)
    /\ writeOutcome[i] = "ok" =>
         (pc[i] = "returned" /\ result[i] = parsedRates[i])

\* C5 witness: after a failed cache read the invocation fetched, aggregated,
\* wrote the entry and returned it.
C5_Witness ==
  \E i \in Inv :
    /\ readOutcome[i] = "fail"
    /\ pc[i] = "returned"
    /\ writeOutcome[i] = "ok"
    /\ result[i] # <<>>
    /\ store[ref(i)].rates = result[i]

\* C6: when the cache write fails the invocation does not raise: it returns
\* the list aggregated from the body it fetched, the same list a successful
\* write returns, and the store is left as it was.
C6_WriteFailureSwallowed ==
  /\ [](\A i \in Inv : writeOutcome[i] = "fail" =>
          /\ pc[i] = "returned"
          /\ error[i] = "none"
          /\ text[i] \in DOMAIN Aggregated
          /\ result[i] = Aggregated[text[i]])
  /\ [][\A i \in Inv : (pc[i] = "setDoc" /\ writeOutcome'[i] = "fail") =>
          /\ store' = store
          /\ result'[i] = parsedRates[i]]_vars

\* C6 witness: a write failed after a fetch of real data; the invocation
\* returned the aggregated list and its key holds no entry.
C6_Witness ==
  \E i \in Inv :
    /\ writeOutcome[i] = "fail"
    /\ pc[i] = "returned"
    /\ result[i] # <<>>
    /\ ~ store[ref(i)].exists

\* the routine ends up with an empty record list for this body
YieldsNoRecords(body) ==
  \/ ~ body.startsBrace
  \/ body.validJson /\ RawRecords(body) = <<>>

\* C7 as stated: an invocation whose fetch yields an empty record list
\* returns the empty list and, unless its write fails, has written an entry
\* with rates = [] under its key.
C7_EmptyResultIsCached ==
  \A i \in Inv :
    ( /\ Ended(i)
      /\ text[i] # NoBody
      /\ YieldsNoRecords(text[i])
      /\ writeOutcome[i] # "fail" )
    => /\ pc[i] = "returned"
       /\ result[i] = <<>>
       /\ writeOutcome[i] = "ok"
       /\ store[ref(i)].exists

\* C8 as stated: an invocation that starts when its key has an entry issues
\* no remote HTTP call.
C8_LaterCallsNeverFetch ==
  \A i \in Inv : existedAtStart[i] => ~ Logged(i, "fetch?")

\* C8 amended: an invocation that starts when its key has an entry, and
\* whose cache read does not fail, is served from the cache and issues no
\* remote HTTP call.
C8_LaterCallsHitUnlessReadFails ==
  \A i \in Inv :
    (existedAtStart[i] /\ readOutcome[i] # "fail") =>
      /\ ~ Logged(i, "fetch?")
      /\ readOutcome[i] \in {"none", "hit"}
      /\ pc[i] \in {"getDoc", "returned"}

\* C8 witness: an invocation started after the entry was written and was
\* served from the cache.
C8_Witness ==
  \E i \in Inv :
    /\ existedAtStart[i]
    /\ readOutcome[i] = "hit"
    /\ pc[i] = "returned"
    /\ log[i] = << "getDoc?", "getDoc!" >>

\* C9: the entry under a key is, in full, the document written by the
\* invocation whose setDoc completed last: its arguments, its own aggregated
\* list and the server time of that write, never a mix of two writes.
C9_LastWriterWins ==
  \A k \in DocIds :
    /\ store[k].exists <=> writes[k] > 0
    /\ store[k].exists =>
         /\ lastWriter[k] \in Inv
         /\ ref(lastWriter[k]) = k
         /\ writeOutcome[lastWriter[k]] = "ok"
         /\ store[k] = CacheEntry(district[lastWriter[k]],
                                  commodity[lastWriter[k]],
                                  date[lastWriter[k]],
                                  parsedRates[lastWriter[k]],
                                  wroteAt[lastWriter[k]])
         /\ \A j \in KeyInv(k) :
              writeOutcome[j] = "ok" => wroteAt[j] <= wroteAt[lastWriter[k]]

\* C9 witness: two invocations for one key both missed, both fetched and
\* both wrote different lists; the key holds the later one's document.
C9_Witness ==
  \E a, b \in Inv :
    /\ a # b
    /\ ref(a) = ref(b)
    /\ readOutcome[a] = "miss" /\ readOutcome[b] = "miss"
    /\ writeOutcome[a] = "ok" /\ writeOutcome[b] = "ok"
    /\ parsedRates[a] # parsedRates[b]
    /\ wroteAt[a] < wroteAt[b]
    /\ writes[ref(a)] = 2
    /\ store[ref(a)].rates = parsedRates[b]

\* s is a prefix of t
IsPrefix(s, t) == Len(s) <= Len(t) /\ s = SubSeq(t, 1, Len(s))

\* C10: the external calls of one invocation are a prefix of: cache read
\* issued, cache read ended, HTTP call issued, HTTP call ended, cache write
\* issued, cache write ended. So each call happens at most once, none is
\* issued before the previous one ended, the HTTP call follows a read that
\* ended as a miss or a failure, and the write follows the aggregation.
C10_OneCallAtATimeInOrder ==
  \A i \in Inv :
    /\ IsPrefix(log[i], CallOrder)
    /\ Logged(i, "fetch?") => readOutcome[i] \in {"miss", "fail"}
    /\ Logged(i, "setDoc?") =>
         /\ text[i] \in DOMAIN Aggregated
         /\ parsedRates[i] = Aggregated[text[i]]

\* C10 witness: an invocation went through all three calls, with data.
C10_Witness ==
  \E i \in Inv :
    /\ log[i] = CallOrder
    /\ pc[i] = "returned"
    /\ result[i] # <<>>

MarketNames(records) == {records[k].Market : k \in 1..Len(records)}

\* the positions of the records of market m
RowsOf(records, m) == {k \in 1..Len(records) : records[k].Market = m}

\* the position of the first record of market m
FirstRow(records, m) ==
  CHOOSE k \in RowsOf(records, m) : \A j \in RowsOf(records, m) : k <= j

\* the sum of column col over the rows
RECURSIVE SumOf(_, _, _)
SumOf(records, rows, col) ==
  IF rows = {}
    THEN 0
    ELSE LET k == CHOOSE x \in rows : TRUE
         IN records[k][col] + SumOf(records, rows \ {k}, col)

\* n is total / count rounded to the nearest integer, a tie going upwards
IsRoundedMean(n, total, count) ==
  /\ (2 * n - 1) * count <= 2 * total
  /\ 2 * total < (2 * n + 1) * count

\* the permutations of 1..n
Perms(n) ==
  {p \in [1..n -> 1..n] : \A a, b \in 1..n : p[a] = p[b] => a = b}

\* the elements of a list, as a set
Elements(list) == {list[k] : k \in 1..Len(list)}

\* C11 as stated: the aggregation of a record list with K distinct market
\* names returns exactly K entries (none for the empty list).
C11_OneEntryPerMarketName ==
  agg.done => Len(agg.rates) = Cardinality(MarketNames(agg.records))

\* C12: every entry of the aggregation output has, in each of minPrice,
\* maxPrice and modalPrice, the mean of that column over the input records
\* of exactly its market, rounded to the nearest integer with ties upwards.
C12_RoundedMeans ==
  agg.done =>
    \A k \in 1..Len(agg.rates) :
      LET rows == RowsOf(agg.records, agg.rates[k].market)
          n == Cardinality(rows)
      IN /\ n > 0
         /\ IsRoundedMean(agg.rates[k].minPrice,
                          SumOf(agg.records, rows, "Min_Price"), n)
         /\ IsRoundedMean(agg.rates[k].maxPrice,
                          SumOf(agg.records, rows, "Max_Price"), n)
         /\ IsRoundedMean(agg.rates[k].modalPrice,
                          SumOf(agg.records, rows, "Modal_Price"), n)

\* C12 witness: the records {10, 20, 15} and {20, 30, 25} of one market were
\* aggregated to {15, 25, 20}.
C12_Witness ==
  /\ agg.done
  /\ agg.records = << Rec("Sangli APMC", 10, 20, 15), Rec("Sangli APMC", 20, 30, 25) >>
  /\ agg.rates = << [market |-> "Sangli APMC", minPrice |-> 15,
                     maxPrice |-> 25, modalPrice |-> 20] >>

\* C13 as stated: the output lists the markets in the order in which each
\* market name first occurs in the input.
C13_FirstOccurrenceOrder ==
  agg.done =>
    \A j, k \in 1..Len(agg.rates) :
      j < k => FirstRow(agg.records, agg.rates[j].market)
                 < FirstRow(agg.records, agg.rates[k].market)

\* C14: the set of entries the aggregation produces is the same for every
\* permutation of the input list.
C14_OrderInsensitive ==
  agg.done =>
    \A p \in Perms(Len(agg.records)) :
      Elements(ParsedRates([k \in 1..Len(agg.records) |-> agg.records[p[k]]]))
        = Elements(agg.rates)

\* C14 witness: a list with two different records of one market, followed by
\* a record of another market, was aggregated to two entries.
C14_Witness ==
  /\ agg.done
  /\ Len(agg.records) = 3
  /\ agg.records[1].Market = agg.records[2].Market
  /\ agg.records[1] # agg.records[2]
  /\ agg.records[3].Market # agg.records[1].Market
  /\ Len(agg.rates) = 2

\* C16 as stated: every price of every aggregated rate is a non-negative
\* integer, whatever records the remote source lists.
C16_PricesNonNegative ==
  agg.done =>
    \A k \in 1..Len(agg.rates) :
      /\ agg.rates[k].minPrice \in Nat
      /\ agg.rates[k].maxPrice \in Nat
      /\ agg.rates[k].modalPrice \in Nat

(* ------------------------ claims on the cache keys ---------------------- *)
\* district + "_" + commodity + "_" + date, tabulated for the arguments and
\* dates that occur
ExpectedKey ==
  [d \in DISTRICTS |->
    [c \in COMMODITIES |->
      [t \in {today(x) : x \in Days} |-> d \o "_" \o c \o "_" \o t]]]

\* C17: the key of a query is district + "_" + commodity + "_" + date in
\* that order, its lookup and its write both use that key, and two queries
\* with one district and commodity and different dates have different keys.
C17_KeyIsDistrictCommodityDate ==
  /\ \A q \in 1..Len(keyq) :
       LET key == keyq[q].district \o "_" \o keyq[q].commodity \o "_" \o keyq[q].date
       IN /\ keyq[q].docId = key
          /\ keyq[q].read \in {"", key}
          /\ keyq[q].written \in {"", key}
  /\ \A p, q \in 1..Len(keyq) :
       /\ keyq[p].district = keyq[q].district
       /\ keyq[p].commodity = keyq[q].commodity
       /\ keyq[p].date # keyq[q].date
       => keyq[p].docId # keyq[q].docId

\* C17 witness: two queries for one district and commodity, one per day,
\* each looked its key up and wrote its entry.
C17_Witness ==
  /\ Len(keyq) = 2
  /\ keyq[1].district = keyq[2].district
  /\ keyq[1].commodity = keyq[2].commodity
  /\ keyq[1].date = today(1) /\ keyq[2].date = today(2)
  /\ keyq[1].read # "" /\ keyq[1].written # ""
  /\ keyq[2].read # "" /\ keyq[2].written # ""

\* C24: the date and the key of a query never change once they are
\* computed, the lookup uses that key and the write uses the key of the
\* lookup, whatever the day is by then.
C24_OneKeyPerInvocation ==
  /\ [](\A q \in 1..Len(keyq) :
          /\ keyq[q].read \in {"", keyq[q].docId}
          /\ keyq[q].written \in {"", keyq[q].read})
  /\ [][\A q \in 1..Len(keyq) :
          /\ keyq'[q].date = keyq[q].date
          /\ keyq'[q].docId = keyq[q].docId
          /\ keyq[q].read # "" => keyq'[q].read = keyq[q].read
          /\ keyq[q].written # "" => keyq'[q].written = keyq[q].written]_vars

\* C24 witness: a query that began and looked its key up on day 1 wrote on
\* day 2, under the key of day 1.
C24_Witness ==
  \E q \in 1..Len(keyq) :
    /\ keyq[q].date = today(1)
    /\ keyq[q].readDay = 1
    /\ keyq[q].writeDay = 2
    /\ keyq[q].written = keyq[q].read
    /\ keyq[q].written # ""

\* C25 as stated: two queries of one date that differ in district or in
\* commodity have different keys, and no query looks up the key that a
\* query for another pair wrote.
C25_DifferentPairsDifferentKeys ==
  \A p, q \in 1..Len(keyq) :
    (/\ keyq[p].date = keyq[q].date
     /\ \/ keyq[p].district # keyq[q].district
        \/ keyq[p].commodity # keyq[q].commodity)
      => /\ keyq[p].docId # keyq[q].docId
         /\ keyq[p].written # "" => keyq[q].read # keyq[p].written

\* C18: every entry in the store has district, commodity and date fields
\* from which its own key is rebuilt: the entry under key k satisfies
\* k = district + "_" + commodity + "_" + date.
C18_EntryFieldsMatchKey ==
  \A k \in DocIds :
    store[k].exists =>
      k = ExpectedKey[store[k].district][store[k].commodity][store[k].date]

\* C18 witness: an entry keyed by the first day was written after the day
\* had changed, by an invocation that started before midnight.
C18_Witness ==
  \E i \in Inv :
    /\ day = 2
    /\ writeOutcome[i] = "ok"
    /\ date[i] = today(1)
    /\ store[DocId("Sangli", "Tomato", today(1))].exists
    /\ lastWriter[DocId("Sangli", "Tomato", today(1))] = i
    /\ ~ store[DocId("Sangli", "Tomato", today(2))].exists

\* C19: no step deletes or expires a cache entry; a key that is present
\* stays present.
C19_KeysOnlyGrow ==
  [][\A k \in DocIds : store[k].exists => store'[k].exists]_vars

\* C19 witness: a second key was added while the first one was still there.
C19_Witness ==
  /\ store[DocId("Sangli", "Tomato", today(1))].exists
  /\ store[DocId("Sangli", "Tomato", today(2))].exists

(* --------------------- claims on the stored lists ----------------------- *)
\* no two entries of the list have the same market string
OnePerMarket(rates) ==
  \A j, k \in 1..Len(rates) : j # k => rates[j].market # rates[k].market

\* C15 as stated: the rates list of every entry stored in liveRates, and
\* every list a getCachedMarketRates returns, has at most one entry per
\* market string.
C15_OneEntryPerMarket ==
  /\ wr.doc.exists => OnePerMarket(wr.doc.rates)
  /\ \A n \in 1..Len(wr.ended) :
       wr.ended[n].outcome = "returned" => OnePerMarket(wr.ended[n].returned)

(* ----------------------- claims on termination ------------------------- *)
\* C20: a load leaves its fetch only when the fetch is answered (there is
\* no timeout, no cancellation); and when every call that is issued is
\* answered, every invocation started ends, returning or raising, and the
\* loading flag, once true, becomes false.
C20_EndsIffAnswered ==
  /\ [][\A n \in 1..Len(ui.loads) :
          (ui.loads[n].pc = "fetch" /\ ui'.loads[n].pc # "fetch")
            => \E k \in 1..Len(ui'.loads[n].log) : ui'.loads[n].log[k] = "fetch!"]_vars
  /\ \A n \in 1..NumLoads : (Len(ui.loads) >= n) ~> LoadEnded(n)
  /\ ui.loading ~> ~ ui.loading

\* C20 witness: a load whose getDoc, fetch and setDoc were all answered has
\* ended, and the loading flag is false.
C20_Witness ==
  /\ ~ ui.loading
  /\ \E n \in 1..Len(ui.loads) :
       /\ ui.loads[n].log = CallOrder
       /\ ui.loads[n].pc = "returned"

(* ----------------------- claims on the component ----------------------- *)
\* what the chart section renders for component state u: the bar chart, or
\* one of the two placeholders
ChartSection(u) ==
  IF Len(u.rates) > 0 /\ ~ u.loading
    THEN "BarChart"
    ELSE IF u.loading THEN "Loading..." ELSE "No Data Available"

\* the rows of the list section: one per entry of rates
ListRows(u) == u.rates

\* load n is the load of the selection that component state u shows
ForSelection(u, n) ==
  /\ u.loads[n].district = u.district
  /\ u.loads[n].commodity = u.commodity

\* load n ends in this step, returning a list
LoadReturns(n) ==
  /\ ui.loads[n].pc \notin {"returned", "raised"}
  /\ ui'.loads[n].pc = "returned"

\* load n ends in this step, raising
LoadRaises(n) ==
  /\ ui.loads[n].pc \notin {"returned", "raised"}
  /\ ui'.loads[n].pc = "raised"

\* C21 as stated: when a load for the current selection ends with an empty
\* list, the component shows "No Data Available", no chart and no rows,
\* loading is false and no error message is set.
C21_EmptyResultShowsNoData ==
  [][\A n \in 1..Len(ui.loads) :
       (LoadReturns(n) /\ ForSelection(ui, n) /\ ui'.loads[n].result = <<>>)
         => /\ ~ ui'.loading
            /\ ChartSection(ui') = "No Data Available"
            /\ ListRows(ui') = <<>>
            /\ ui'.error = ""]_vars

\* C22 as stated: once every load that was started has ended, and the load
\* of the current selection (the last one started) returned, the rates in
\* component state are the list that load returned.
C22_RatesOfCurrentSelection ==
  LET last == Len(ui.loads)
  IN (/\ last >= 1
      /\ \A n \in 1..last : LoadEnded(n)
      /\ ui.loads[last].pc = "returned")
       => ui.rates = ui.loads[last].result

\* C23 as stated: while a load started by a change of the selection has not
\* ended, the loading flag is true.
C23_LoadingWhileOutstanding ==
  (\E n \in 2..Len(ui.loads) : ~ LoadEnded(n)) => ui.loading

\* C28: a step in which a load raises leaves the rates of the component
\* as they were, sets the error message and sets loading to false; a step
\* in which a load starts clears the error message.
C28_FailureKeepsRates ==
  [][/\ \A n \in 1..Len(ui.loads) :
          LoadRaises(n) => /\ ui'.rates = ui.rates
                           /\ ui'.error = "Failed to load market rates"
                           /\ ~ ui'.loading
     /\ Len(ui'.loads) > Len(ui.loads) => ui'.error = ""]_vars

\* C28 witness: a load raised after an earlier one had put a list on
\* display; the list is still there, the message is set, loading is false.
C28_Witness ==
  /\ Len(ui.loads) >= 2
  /\ ui.loads[1].pc = "returned"
  /\ ui.loads[2].pc = "raised"
  /\ ui.rates # <<>>
  /\ ui.rates = ui.loads[1].result
  /\ ui.error = "Failed to load market rates"
  /\ ~ ui.loading

(* ------ the exported and the component-local getCachedMarketRates ------- *)
\* the district and the commodity both are called with
EqDistrict == "Sangli"
EqCommodity == "Tomato"

\* getCachedMarketRates of modules/LiveRates.tsx under the outcomes `in`:
\* the key, the store and remote operations in order, and how it ends
ModuleRun(in) ==
  LET key == DocId(EqDistrict, EqCommodity, today(1))
      run(ops, outcome) == [key |-> key, ops |-> ops, outcome |-> outcome]
  IN IF in.readOk /\ in.existed
       THEN run(<< "getDoc" >>, "returned")
     ELSE IF ~ in.netOk
       THEN run(<< "getDoc", "fetch" >>, "raised")
     ELSE IF ~ in.body.startsBrace
       THEN run(<< "getDoc", "fetch" >>, "returned")
     ELSE IF ~ in.body.validJson
       THEN run(<< "getDoc", "fetch" >>, "raised")
     ELSE run(<< "getDoc", "fetch", "setDoc" >>, "returned")

\* getCachedMarketRates of services/marketRates.ts under the outcomes `in`:
\* getDoc and setDoc are awaited outside any try, the URL reads
\* import.meta.env.local.VITE_DATA_GOV_API, the body goes through res.json()
ServiceRun(in) ==
  LET key == DocId(EqDistrict, EqCommodity, today(1))
      run(ops, outcome) == [key |-> key, ops |-> ops, outcome |-> outcome]
  IN IF ~ in.readOk
       THEN run(<< "getDoc" >>, "raised")
     ELSE IF in.existed
       THEN run(<< "getDoc" >>, "returned")
     ELSE IF ~ in.envLocal
       THEN run(<< "getDoc" >>, "raised")
     ELSE IF ~ in.netOk \/ ~ in.body.validJson
       THEN run(<< "getDoc", "fetch" >>, "raised")
     ELSE run(<< "getDoc", "fetch", "setDoc" >>,
              IF in.writeOk THEN "returned" ELSE "raised")

\* The component-local function is called; the outcomes of its getDoc,
\* fetch and setDoc are drawn here and kept for the other function.
EqCallModule(existed, readOk, envLocal, netOk, body, writeOk) ==
  /\ eq.phase = "idle"
  /\ LET in == [existed |-> existed, readOk |-> readOk, envLocal |-> envLocal,
                netOk |-> netOk, body |-> body, writeOk |-> writeOk]
     IN eq' = [eq EXCEPT !.phase = "module", !.input = in,
                         !.module = ModuleRun(in)]
  /\ UNCHANGED << ratesVars, agg, keyq, wr, ui, shop, sow >>

\* The exported function is called under the same outcomes.
EqCallService ==
  /\ eq.phase = "module"
  /\ eq' = [eq EXCEPT !.phase = "both", !.service = ServiceRun(eq.input)]
  /\ UNCHANGED << ratesVars, agg, keyq, wr, ui, shop, sow >>

EqNext ==
  \/ \E existed, readOk, envLocal, netOk, writeOk \in BOOLEAN, body \in Bodies :
       EqCallModule(existed, readOk, envLocal, netOk, body, writeOk)
  \/ EqCallService

EqSpec == Init /\ [][EqNext]_vars

\* C27: under every combination of outcomes of the cache read, the remote
\* fetch and the cache write, the exported getCachedMarketRates and the
\* component-local one perform the same operations on the same key and end
\* alike, both returning a list or both raising.
C27_SameOperationsSameOutcome ==
  eq.phase = "both" =>
    /\ eq.module.key = eq.service.key
    /\ eq.module.ops = eq.service.ops
    /\ eq.module.outcome = eq.service.outcome

(* ----------------------- the Marketplace checkout ----------------------- *)
\* the checkout sessions one run goes through, and the largest quantity
MaxSessions == 2
MaxQuantity == 2

\* the ids of the products on sale, and the numbers an order id is made of
ProductIds == {"1", "2"}
PaymentMethods == {"upi", "card", "netbanking"}
OrderNumbers == {100000, 999999}

\* the checkout form is on screen: checkoutProduct && !orderConfirmed
CheckoutFormShown == shop.checkoutProduct # "null" /\ ~ shop.orderConfirmed

\* the order-confirmed screen is on screen: checkoutProduct && orderConfirmed
ConfirmedScreenShown == shop.checkoutProduct # "null" /\ shop.orderConfirmed

\* "Buy" in the product list, which is rendered while checkoutProduct is null;
\* a checkout session starts
handleStartCheckout(product) ==
  /\ shop.checkoutProduct = "null"
  /\ shop.session < MaxSessions
  /\ shop' = [shop EXCEPT !.checkoutProduct = product,
                          !.orderConfirmed = FALSE,
                          !.session = @ + 1]
  /\ UNCHANGED << ratesVars, agg, keyq, wr, ui, eq, sow >>

\* the "-" and "+" of the quantity
DecreaseQuantity ==
  /\ CheckoutFormShown
  /\ shop' = [shop EXCEPT !.checkoutQuantity = IF @ - 1 > 1 THEN @ - 1 ELSE 1]
  /\ UNCHANGED << ratesVars, agg, keyq, wr, ui, eq, sow >>

IncreaseQuantity ==
  /\ CheckoutFormShown
  /\ shop.checkoutQuantity < MaxQuantity
  /\ shop' = [shop EXCEPT !.checkoutQuantity = @ + 1]
  /\ UNCHANGED << ratesVars, agg, keyq, wr, ui, eq, sow >>

\* one of the payment methods is picked
setPaymentMethod(m) ==
  /\ CheckoutFormShown
  /\ shop' = [shop EXCEPT !.paymentMethod = m]
  /\ UNCHANGED << ratesVars, agg, keyq, wr, ui, eq, sow >>

\* the pay button, disabled while isProcessingPayment: the 2.5 s timer is
\* set, and belongs to the session it was set in
handleConfirmPayment ==
  /\ CheckoutFormShown
  /\ ~ shop.isProcessingPayment
  /\ shop' = [shop EXCEPT !.isProcessingPayment = TRUE,
                          !.timers = Append(@, shop.session),
                          !.paidIn = @ \cup {shop.session}]
  /\ UNCHANGED << ratesVars, agg, keyq, wr, ui, eq, sow >>

\* the callback of setTimeout runs, 2.5 s after handleConfirmPayment
PaymentTimerFires(number) ==
  /\ Len(shop.timers) > 0
  /\ shop' = [shop EXCEPT !.orderId = "ORD-" \o ToString(number),
                          !.isProcessingPayment = FALSE,
                          !.orderConfirmed = TRUE,
                          !.timers = Tail(@)]
  /\ UNCHANGED << ratesVars, agg, keyq, wr, ui, eq, sow >>

\* the back button of the form and the button of the confirmed screen; the
\* timer is not cleared and isProcessingPayment is left as it is
closeCheckout ==
  /\ shop.checkoutProduct # "null"
  /\ shop' = [shop EXCEPT !.checkoutProduct = "null",
                          !.orderConfirmed = FALSE,
                          !.checkoutQuantity = 1]
  /\ UNCHANGED << ratesVars, agg, keyq, wr, ui, eq, sow >>

ShopNext ==
  \/ \E product \in ProductIds : handleStartCheckout(product)
  \/ DecreaseQuantity
  \/ IncreaseQuantity
  \/ \E m \in PaymentMethods : setPaymentMethod(m)
  \/ handleConfirmPayment
  \/ \E number \in OrderNumbers : PaymentTimerFires(number)
  \/ closeCheckout

ShopSpec == Init /\ [][ShopNext]_vars

\* C29: orderConfirmed is true only while a product is being checked out
\* and handleConfirmPayment was invoked in the checkout session that is
\* open: the confirmed screen never shows for a product whose payment was
\* not started in this session, and never while checkoutProduct is null.
C29_ConfirmedOnlyForPaidSession ==
  shop.orderConfirmed =>
    /\ shop.checkoutProduct # "null"
    /\ shop.session \in shop.paidIn

(* --------------------------- the sowing form ---------------------------- *)
\* the submissions of the form one run goes through
MaxSubmissions == 2

\* the component of modules/SowingModule.tsx ("module") and the one with the
\* crop list and the area unit ("listed")
SowVariants == {"module", "listed"}
CropCategories == {"VEGETABLE", "FRUIT", "FLOWER"}

\* what the farmer enters: a crop, an area, a date, a picture
CropNames == {"", "Tomato"}
Areas == {"", "2"}
Dates == {"", "2024-05-01"}
Image == "data:image/jpeg;base64,AAAA"

\* parseFloat(area) and Number(area) of the areas entered
AreaNumber == ("2" :> 2)

\* what verifyCropImage answers: { match: true }, { match: false }, or an
\* exception (generateContent rejects, JSON.parse or image.split throws)
Answers == {"match", "nomatch", "throw"}

\* the reason the model gives with its answer
Reason == "reason"

\* the fields of the form that handleVerify resets after a success
FormFields(w) == << w.cropName, w.area, w.sowingDate, w.harvestDate, w.image >>

\* disabled={verifying || !image || !cropName || !area}, and for the listed
\* crops disabled={verifying || !image || !area}
VerifyButtonEnabled ==
  /\ ~ sow.verifying
  /\ sow.image # "null"
  /\ sow.area # ""
  /\ sow.variant = "module" => sow.cropName # ""

\* the first line of handleVerify is passed: nothing it needs is missing
VerifyInputsPresent ==
  /\ sow.image # "null"
  /\ sow.cropName # ""
  /\ sow.area # ""
  /\ sow.variant = "listed" => sow.sowingDate # "" /\ sow.harvestDate # ""

\* setAiFeedback(...) of each outcome, without its emoji
FeedbackOf(variant, outcome) ==
  IF outcome = "success"
    THEN (IF variant = "module" THEN "Verification Successful: "
                                ELSE "Verified: ") \o Reason
  ELSE IF outcome = "nomatch"
    THEN (IF variant = "module" THEN "Verification Failed: "
                                ELSE "Failed: ") \o Reason
  ELSE IF variant = "module" THEN "An error occurred during verification."
                             ELSE "Verification Error occurred."

\* one of the two components is mounted
SowMount(variant) ==
  /\ sow.variant = ""
  /\ sow' = [sow EXCEPT !.variant = variant]
  /\ UNCHANGED << ratesVars, agg, keyq, wr, ui, eq, shop >>

\* a category button; for the listed crops it also empties the crop
setCategory(cat) ==
  /\ sow.variant # ""
  /\ sow' = [sow EXCEPT !.category = cat,
                        !.cropName = IF sow.variant = "listed" THEN "" ELSE @]
  /\ UNCHANGED << ratesVars, agg, keyq, wr, ui, eq, shop >>

setCropName(name) ==
  /\ sow.variant # ""
  /\ sow' = [sow EXCEPT !.cropName = name]
  /\ UNCHANGED << ratesVars, agg, keyq, wr, ui, eq, shop >>

setArea(a) ==
  /\ sow.variant # ""
  /\ sow' = [sow EXCEPT !.area = a]
  /\ UNCHANGED << ratesVars, agg, keyq, wr, ui, eq, shop >>

setSowingDate(d) ==
  /\ sow.variant # ""
  /\ sow' = [sow EXCEPT !.sowingDate = d]
  /\ UNCHANGED << ratesVars, agg, keyq, wr, ui, eq, shop >>

setHarvestDate(d) ==
  /\ sow.variant # ""
  /\ sow' = [sow EXCEPT !.harvestDate = d]
  /\ UNCHANGED << ratesVars, agg, keyq, wr, ui, eq, shop >>

\* a picture is chosen and read: setImage(reader.result)
handleImageChange ==
  /\ sow.variant # ""
  /\ sow' = [sow EXCEPT !.image = Image]
  /\ UNCHANGED << ratesVars, agg, keyq, wr, ui, eq, shop >>

\* The button runs handleVerify up to its first await: it returns at once
\* if something is missing, else setVerifying(true), setAiFeedback(null)
\* and the call of verifyCropImage; the fields as they are now stay with
\* this run of handleVerify (closure).
handleVerify ==
  /\ sow.variant # ""
  /\ VerifyButtonEnabled
  /\ Len(sow.subs) < MaxSubmissions
  /\ IF VerifyInputsPresent
       THEN sow' = [sow EXCEPT
              !.verifying = TRUE,
              !.aiFeedback = "null",
              !.subs = Append(@, [pc |-> "verifyCropImage", answer |-> ""]),
              !.closure = [category |-> sow.category, name |-> sow.cropName,
                           area |-> sow.area]]
       ELSE sow' = [sow EXCEPT
              !.subs = Append(@, [pc |-> "returned early", answer |-> ""])]
  /\ UNCHANGED << ratesVars, agg, keyq, wr, ui, eq, shop >>

\* a handleVerify whose form is emptied whatever the answer
VerifyCropImageResponds_ResetAlways(n, answer) ==
  /\ sow.subs[n].pc = "verifyCropImage"
  /\ sow' = IF answer = "match"
              THEN [sow EXCEPT !.subs[n].pc = "addDoc",
                               !.subs[n].answer = answer]
              ELSE [sow EXCEPT !.subs[n].pc = "done",
                               !.subs[n].answer = answer,
                               !.aiFeedback = FeedbackOf(sow.variant, answer),
                               !.cropName = "", !.area = "",
                               !.sowingDate = "", !.harvestDate = "",
                               !.image = "null",
                               !.verifying = FALSE,
                               !.closure = NoClosure]
  /\ UNCHANGED << ratesVars, agg, keyq, wr, ui, eq, shop >>

\* verifyCropImage of submission n ends. On a match handleVerify goes on to
\* addDoc; else setAiFeedback(failed) or, in the catch, setAiFeedback(error),
\* and in the finally setVerifying(false).
VerifyCropImageResponds(n, answer) ==
  /\ sow.subs[n].pc = "verifyCropImage"
  /\ sow' = IF answer = "match"
              THEN [sow EXCEPT !.subs[n].pc = "addDoc",
                               !.subs[n].answer = answer]
              ELSE [sow EXCEPT !.subs[n].pc = "done",
                               !.subs[n].answer = answer,
                               !.aiFeedback = FeedbackOf(sow.variant, answer),
                               !.verifying = FALSE,
                               !.closure = NoClosure]
  /\ UNCHANGED << ratesVars, agg, keyq, wr, ui, eq, shop >>

\* the document handleVerify hands to addDoc for submission n: its farmer,
\* category, name, area and status (the dates and the picture go with it as
\* they were entered)
NewRecord(n) ==
  [farmerId |-> "f1", category |-> sow.closure.category,
   name |-> sow.closure.name, area |-> AreaNumber[sow.closure.area],
   status |-> "AUTHORIZED", sub |-> n]

\* addDoc of submission n succeeds: the record is in sowing_records; the
\* module puts it at the head of its category's list; the feedback is set,
\* the form is emptied, and in the finally setVerifying(false).
AddDocOk(n) ==
  /\ sow.subs[n].pc = "addDoc"
  /\ LET newRecord == NewRecord(n)
         local == sow.variant = "module"
         cat == newRecord.category
     IN sow' = [sow EXCEPT
           !.sowing_records = Append(@, newRecord),
           !.vegRecords = IF local /\ cat = "VEGETABLE"
                            THEN << newRecord >> \o @ ELSE @,
           !.fruitRecords = IF local /\ cat = "FRUIT"
                              THEN << newRecord >> \o @ ELSE @,
           !.flowerRecords = IF local /\ cat = "FLOWER"
                               THEN << newRecord >> \o @ ELSE @,
           !.aiFeedback = FeedbackOf(sow.variant, "success"),
           !.cropName = "", !.area = "", !.sowingDate = "",
           !.harvestDate = "", !.image = "null",
           !.verifying = FALSE,
           !.subs[n].pc = "done",
           !.closure = NoClosure]
  /\ UNCHANGED << ratesVars, agg, keyq, wr, ui, eq, shop >>

\* addDoc of submission n rejects: the catch sets the error feedback, and
\* in the finally setVerifying(false)
AddDocFail(n) ==
  /\ sow.subs[n].pc = "addDoc"
  /\ sow' = [sow EXCEPT !.aiFeedback = FeedbackOf(sow.variant, "throw"),
                        !.verifying = FALSE,
                        !.subs[n].pc = "done",
                        !.closure = NoClosure]
  /\ UNCHANGED << ratesVars, agg, keyq, wr, ui, eq, shop >>

SowNext ==
  \/ \E variant \in SowVariants : SowMount(variant)
  \/ \E cat \in CropCategories : setCategory(cat)
  \/ \E name \in CropNames : setCropName(name)
  \/ \E a \in Areas : setArea(a)
  \/ \E d \in Dates : setSowingDate(d)
  \/ \E d \in Dates : setHarvestDate(d)
  \/ handleImageChange
  \/ handleVerify
  \/ \E n \in 1..Len(sow.subs), answer \in Answers :
       VerifyCropImageResponds(n, answer)
  \/ \E n \in 1..Len(sow.subs) : AddDocOk(n)
  \/ \E n \in 1..Len(sow.subs) : AddDocFail(n)

SowSpec == Init /\ [][SowNext]_vars

\* submission n has run to its end
SubFinished(w, n) == w.subs[n].pc \in {"done", "returned early"}

\* submission n ends in this step
SubFinishes(n) ==
  /\ n <= Len(sow'.subs)
  /\ SubFinished(sow', n)
  /\ n <= Len(sow.subs) => ~ SubFinished(sow, n)

\* C30: every record of sowing_records is AUTHORIZED and belongs to a
\* submission whose verification answered match = true; the step on which
\* a verification answers match = false or throws writes no record and
\* leaves the fields of the form as they are; and whenever a handleVerify
\* ends, verifying is false.
C30_RecordOnlyOnMatch ==
  /\ [](\A r \in 1..Len(sow.sowing_records) :
          /\ sow.sowing_records[r].status = "AUTHORIZED"
          /\ sow.subs[sow.sowing_records[r].sub].answer = "match")
  /\ [][\A n \in 1..Len(sow.subs) :
          (sow.subs[n].pc = "verifyCropImage"
             /\ sow'.subs[n].answer \in {"nomatch", "throw"})
            => /\ sow'.sowing_records = sow.sowing_records
               /\ FormFields(sow') = FormFields(sow)]_vars
  /\ [][\A n \in 1..MaxSubmissions : SubFinishes(n) => ~ sow'.verifying]_vars

\* one submission was verified and recorded, the next was rejected with the
\* form filled in
C30_Witness ==
  /\ Len(sow.subs) = 2
  /\ sow.subs[1].answer = "match" /\ sow.subs[1].pc = "done"
  /\ Len(sow.sowing_records) = 1
  /\ sow.subs[2].answer = "nomatch" /\ sow.subs[2].pc = "done"
  /\ sow.cropName # "" /\ sow.area # "" /\ sow.image # "null"
  /\ ~ sow.verifying

====
